---------------------------- MODULE Spec2Model ----------------------------
(***************************************************************************)
(* A model of the classmate backend: registration / login with signed,     *)
(* time-bounded tokens (userapi.py), the per-user goals / notes / tasks    *)
(* collections with their delete-all-then-insert save (chatbotapi.py) and  *)
(* the chat relay with its primary / secondary fallback (chatbotapi.py).   *)
(*                                                                         *)
(* Every handler is an `async def` whose database calls are synchronous,   *)
(* so one server process runs a handler without interleaving; several      *)
(* server processes (Workers) share the database and interleave at the     *)
(* granularity of single database operations.                              *)
(***************************************************************************)
EXTENDS Integers, Sequences, FiniteSets, TLC

VARIABLES
    users_connected,   \* userapi.py: users_collection is not None
    data_connected,    \* chatbotapi.py: goals/notes/tasks_collection is not None
    users,             \* db["users"]: the stored user documents, in insertion order
    coll,              \* db["goals"], db["notes"], db["tasks"]: documents in insertion order
    now,               \* the clock read by datetime.utcnow(), in seconds
    ticks,             \* how many times the clock has advanced
    issued,            \* the tokens login has handed out, each with its time of issue
    registered,        \* the credentials, as submitted, of every successful registration
    pc,                \* per server process: where its current handler stands
    req,               \* per server process: the request it is handling (NoReq when idle)
    last,              \* the request completed last, and the response it got
    nreq,              \* the number of requests started so far
    ndb,               \* the number of operations performed on goals / notes / tasks
    chat               \* the chat relay's current run

vars == <<users_connected, data_connected, users, coll, now, ticks, issued, registered,
          pc, req, last, nreq, ndb, chat>>

authVars == <<users, issued, registered, now, ticks>>
workerVars == <<pc, req, last, nreq>>
storeVars == <<coll, ndb>>
connVars == <<users_connected, data_connected>>

-----------------------------------------------------------------------------
(* Bounds of the model *)

MaxUsers == 2
MaxIssued == 2
MaxTicks == 2
MaxItems == 2
MaxAuthRequests == 3
MaxTokenRequests == 3
MaxDataOps == 4
MaxGateRequests == 1
MaxErrLen == 2

\* the server processes sharing the database
Workers == {1, 2}

-----------------------------------------------------------------------------
(* Text: a string is the sequence of its characters (or of larger pieces   *)
(* where no operation looks inside a piece).                               *)

SeqsUpTo(S, n) == UNION {[1..k -> S] : k \in 0..n}

\* `needle in hay` on Python strings
Contains(hay, needle) ==
    \E i \in 0..(Len(hay) - Len(needle)) :
        SubSeq(hay, i + 1, i + Len(needle)) = needle

LowerChar(ch) ==
    CASE ch = "A" -> "a"
      [] ch = "B" -> "b"
      [] OTHER -> ch

\* str.lower()
RECURSIVE Lower(_)
Lower(s) == IF s = <<>> THEN <<>> ELSE <<LowerChar(Head(s))>> \o Lower(Tail(s))

-----------------------------------------------------------------------------
(* userapi.py: the request models and their validators *)

AT == "@"

Emails == { <<"A", AT, "x">>, <<"a", AT, "x">>, <<"a", "x">> }
Passwords == { <<"s","e","c","r","e","t">>, <<"s","h","o","r","t">> }
Names == { "Ann" }
Dobs == { "2000-01-01" }
Salts == { "salt1", "salt2" }

MIN_PASSWORD_LEN == 6

RegisterBodies == [name : Names, email : Emails, password : Passwords, dob : Dobs]
LoginBodies == [email : Emails, password : Passwords]

\* validate_email without the lower(): what C6 rests on
validate_email_as_given(v) ==
    IF ~(\E i \in 1..Len(v) : v[i] = AT)
    THEN [ok |-> FALSE, value |-> v]
    ELSE [ok |-> TRUE, value |-> v]

\* RegisterModel.validate_email
validate_email(v) ==
    IF ~(\E i \in 1..Len(v) : v[i] = AT)
    THEN [ok |-> FALSE, value |-> v]
    ELSE [ok |-> TRUE, value |-> Lower(v)]

\* RegisterModel.validate_password
validate_password(v) ==
    IF Len(v) < MIN_PASSWORD_LEN
    THEN [ok |-> FALSE, value |-> v]
    ELSE [ok |-> TRUE, value |-> v]

\* pydantic builds RegisterModel from the request body: every validator runs
RegisterModel(body) ==
    LET e == validate_email(body.email)
        p == validate_password(body.password)
    IN  [ok |-> e.ok /\ p.ok,
         name |-> body.name, email |-> e.value, password |-> p.value, dob |-> body.dob]

\* LoginModel has no validator: the fields are taken as submitted
LoginModel(body) == [email |-> body.email, password |-> body.password]

-----------------------------------------------------------------------------
(* userapi.py: password hashing (passlib bcrypt: a salted one-way digest) *)

Digest(password, salt) == <<"bcrypt", salt, password>>

\* pwd_context.hash
pwd_hash(password, salt) == [salt |-> salt, digest |-> Digest(password, salt)]

\* pwd_context.verify
pwd_verify(password, hashed) == hashed.digest = Digest(password, hashed.salt)

-----------------------------------------------------------------------------
(* userapi.py: tokens *)

SECRET_KEY == "SECRET_KEY"
OTHER_KEY == "not-the-secret"

TOKEN_TTL == 86400

\* str(ObjectId) and ObjectId(str): the id travels in the token as its hex string
Str(oid) == <<"hex", oid>>
ObjectId(hex) == hex[2]

\* the HS256 signature of a payload under a key
Sign(id, exp, key) == <<key, id, exp>>

create_jwt_token(user_id, t) ==
    [id |-> user_id, exp |-> t + TOKEN_TTL, sig |-> Sign(user_id, t + TOKEN_TTL, SECRET_KEY)]

\* jwt.decode with verify_signature off: what C3 rests on
jwt_decode_unverified(token, t) ==
    IF token.exp < t
    THEN [ok |-> FALSE, id |-> <<>>]
    ELSE [ok |-> TRUE, id |-> token.id]

\* jwt.decode rejecting at the expiry second itself: what C7 rests on
jwt_decode_early(token, t) ==
    IF token.sig # Sign(token.id, token.exp, SECRET_KEY)
    THEN [ok |-> FALSE, id |-> <<>>]
    ELSE IF token.exp <= t
    THEN [ok |-> FALSE, id |-> <<>>]
    ELSE [ok |-> TRUE, id |-> token.id]

\* jwt.decode: the signature first, then the exp claim (expired when exp < now)
jwt_decode(token, t) ==
    IF token.sig # Sign(token.id, token.exp, SECRET_KEY)
    THEN [ok |-> FALSE, id |-> <<>>]
    ELSE IF token.exp < t
    THEN [ok |-> FALSE, id |-> <<>>]
    ELSE [ok |-> TRUE, id |-> token.id]

\* what a client without the secret can make of a token it holds: the payload
\* pointed at another user under the old signature, ...
Redirected(token) ==
    { [token EXCEPT !.id = Str(users[k]._id)] :
        k \in {j \in 1..Len(users) : Str(users[j]._id) # token.id} }

\* ... the expiry pushed back under the old signature, or a signature of its own
Tampered(token) ==
    { [token EXCEPT !.sig = Sign(token.id, token.exp, OTHER_KEY)],
      [token EXCEPT !.exp = token.exp + TOKEN_TTL] }
    \cup Redirected(token)

\* an Authorization header: absent (<<>>) or carrying one bearer token
Headers == {<<>>} \cup { <<i.token>> : i \in issued }
                  \cup { <<t>> : t \in UNION { Tampered(i.token) : i \in issued } }

\* the headers of clients presenting the token login gave them
ValidHeaders == { <<i.token>> : i \in issued }

\* users_collection.find_one({field: value}): the first match in stored order
RECURSIVE FindByEmail(_, _)
FindByEmail(docs, email) ==
    IF docs = <<>> THEN <<>>
    ELSE IF Head(docs).email = email THEN <<Head(docs)>>
    ELSE FindByEmail(Tail(docs), email)

RECURSIVE FindById(_, _)
FindById(docs, id) ==
    IF docs = <<>> THEN <<>>
    ELSE IF Head(docs)._id = id THEN <<Head(docs)>>
    ELSE FindById(Tail(docs), id)

Error(status, detail) == [ok |-> FALSE, status |-> status, detail |-> detail, user |-> <<>>]

\* oauth2_scheme, then get_current_user
get_current_user(header, t) ==
    IF header = <<>> THEN Error(401, "Not authenticated")
    ELSE IF ~users_connected THEN Error(500, "Database not connected")
    ELSE LET payload == jwt_decode(header[1], t)
         IN  IF ~payload.ok THEN Error(401, "Invalid token")
             ELSE LET user == FindById(users, ObjectId(payload.id))
                  IN  IF user = <<>> THEN Error(401, "User not found")
                      ELSE [ok |-> TRUE, status |-> 200, detail |-> "", user |-> user]

-----------------------------------------------------------------------------
(* Requests and responses of a server process *)

\* a request and what its handler has reached: `ops` are the operations it has
\* performed on goals / notes / tasks, `old` what its delete_many removed, and
\* `clean` says that no other request has written the documents it saves since
\* it began
NoReq == [n |-> 0, kind |-> "none", header |-> <<>>, body |-> <<>>,
          coll |-> "", items |-> <<>>, i |-> 0, uid |-> <<>>, old |-> <<>>,
          ops |-> {}, clean |-> TRUE]
NoResp == [status |-> 0, detail |-> "", body |-> <<>>]

Request(kind, header, body) ==
    [NoReq EXCEPT !.n = nreq + 1, !.kind = kind, !.header = header, !.body = body]

Response(status, detail, body) == [status |-> status, detail |-> detail, body |-> body]

\* raise HTTPException(status_code, detail)
HTTPException(status, detail) == Response(status, detail, <<>>)

\* UserResponse(name, email, dob)
UserResponse(name, email, dob) == [name |-> name, email |-> email, dob |-> dob]

\* a write on documents `wrote` = <<collection, user_id>> disturbs every other
\* save of the same documents (wrote = <<>>: nothing was written)
Touch(r, wrote) ==
    IF wrote # <<>> /\ r.kind = "save" /\ r.coll = wrote[1] /\ r.uid = wrote[2]
    THEN [r EXCEPT !.clean = FALSE]
    ELSE r

\* the handler of process w returns (or raises) in this step
Complete(w, r, response, wrote) ==
    /\ pc' = [pc EXCEPT ![w] = "idle"]
    /\ req' = [x \in Workers |-> IF x = w THEN NoReq ELSE Touch(req[x], wrote)]
    /\ last' = [req |-> r, resp |-> response]
    /\ nreq' = IF r.n > nreq THEN r.n ELSE nreq

\* the handler of process w goes on with further database operations
Continue(w, r, at, wrote) ==
    /\ pc' = [pc EXCEPT ![w] = at]
    /\ req' = [x \in Workers |-> IF x = w THEN r ELSE Touch(req[x], wrote)]
    /\ last' = [last EXCEPT !.req = Touch(@, wrote)]
    /\ nreq' = IF r.n > nreq THEN r.n ELSE nreq

-----------------------------------------------------------------------------
(* userapi.py: POST /api/register *)

\* how many registrations have passed the duplicate check and not yet inserted
PendingInserts == Cardinality({w \in Workers : pc[w] = "register_insert"})

\* lines 102-107: validation, the connection check and the duplicate pre-check
RegisterCheck(w, body) ==
    /\ pc[w] = "idle"
    /\ Len(users) + PendingInserts < MaxUsers
    /\ LET user == RegisterModel(body)
           r == Request("register", <<>>, body)
       IN  IF ~user.ok
           THEN Complete(w, r, HTTPException(422, "Validation error"), <<>>)
           ELSE IF ~users_connected
           THEN Complete(w, r, HTTPException(500, "Database not connected"), <<>>)
           ELSE IF FindByEmail(users, user.email) # <<>>
           THEN Complete(w, r, HTTPException(400, "Email already registered"), <<>>)
           ELSE Continue(w, r, "register_insert", <<>>)
    /\ UNCHANGED <<connVars, authVars, storeVars, chat>>

\* lines 109-119: hash the password, insert the document, answer
RegisterInsert(w, salt) ==
    /\ pc[w] = "register_insert"
    /\ LET user == RegisterModel(req[w].body)
           user_data == [_id |-> Len(users) + 1,
                         name |-> user.name,
                         email |-> user.email,
                         password |-> pwd_hash(user.password, salt),
                         dob |-> user.dob,
                         created_at |-> now]
       IN  /\ users' = Append(users, user_data)
           /\ registered' = registered \cup {[email |-> req[w].body.email,
                                                password |-> req[w].body.password]}
           /\ Complete(w, req[w],
                       Response(200, "", UserResponse(user.name, user.email, user.dob)), <<>>)
    /\ UNCHANGED <<connVars, issued, now, ticks, storeVars, chat>>

-----------------------------------------------------------------------------
(* userapi.py: POST /api/login *)

LoginResult(body, t) ==
    LET user == LoginModel(body)
        db_user == FindByEmail(users, user.email)
    IN  IF ~users_connected
        THEN [ok |-> FALSE, response |-> HTTPException(500, "Database not connected"),
              grant |-> {}]
        ELSE IF db_user = <<>> \/ ~pwd_verify(user.password, db_user[1].password)
        THEN [ok |-> FALSE, response |-> HTTPException(401, "Invalid credentials"),
              grant |-> {}]
        ELSE LET token == create_jwt_token(Str(db_user[1]._id), t)
             IN  [ok |-> TRUE,
                  response |-> Response(200, "Login successful",
                                  [token |-> token,
                                   user |-> [name |-> db_user[1].name,
                                             email |-> db_user[1].email]]),
                  grant |-> {[token |-> token, at |-> t, user |-> db_user[1]._id]}]

Login(w, body) ==
    /\ pc[w] = "idle"
    /\ LET res == LoginResult(body, now)
       IN  /\ Cardinality(issued \cup res.grant) <= MaxIssued
           /\ issued' = issued \cup res.grant
           /\ Complete(w, Request("login", <<>>, body), res.response, <<>>)
    /\ UNCHANGED <<connVars, users, registered, now, ticks, storeVars, chat>>

-----------------------------------------------------------------------------
(* userapi.py: GET /api/me *)

GetMe(w, header) ==
    /\ pc[w] = "idle"
    /\ LET current_user == get_current_user(header, now)
           r == Request("me", header, <<>>)
       IN  IF ~current_user.ok
           THEN Complete(w, r, HTTPException(current_user.status, current_user.detail), <<>>)
           ELSE Complete(w, r, Response(200, "",
                    UserResponse(current_user.user[1].name, current_user.user[1].email,
                                 current_user.user[1].dob)), <<>>)
    /\ UNCHANGED <<connVars, authVars, storeVars, chat>>

-----------------------------------------------------------------------------
(* The clock *)

TickSteps == {1, TOKEN_TTL - 1, TOKEN_TTL}

Tick(d) ==
    /\ ticks < MaxTicks
    /\ now' = now + d
    /\ ticks' = ticks + 1
    /\ UNCHANGED <<connVars, users, issued, registered, storeVars, workerVars, chat>>

-----------------------------------------------------------------------------
(* chatbotapi.py: the goals / notes / tasks collections *)

Colls == {"goals", "notes", "tasks"}

\* GoalItem, NoteItem, TaskItem
GoalItem == [goal : {"read"}, checked : BOOLEAN]
NoteItem == [content : {"memo"}, timestamp : {"09:00"}]
TaskItem == [task : {"call"}, checked : {TRUE}]

ItemsOf(c) ==
    CASE c = "goals" -> GoalItem
      [] c = "notes" -> NoteItem
      [] c = "tasks" -> TaskItem

\* the request body of a save: list[GoalItem], list[NoteItem], list[TaskItem]
Bodies(c) == SeqsUpTo(ItemsOf(c), MaxItems)

\* the document insert_one stores for an item
MakeDoc(c, user_id, item) ==
    CASE c = "goals" -> [user_id |-> user_id, goal |-> item.goal, checked |-> item.checked]
      [] c = "notes" -> [user_id |-> user_id, content |-> item.content,
                         timestamp |-> item.timestamp]
      [] c = "tasks" -> [user_id |-> user_id, task |-> item.task, checked |-> item.checked]

\* the dict a get handler returns for a document
ItemOf(c, d) ==
    CASE c = "goals" -> [goal |-> d.goal, checked |-> d.checked]
      [] c = "notes" -> [content |-> d.content, timestamp |-> d.timestamp]
      [] c = "tasks" -> [task |-> d.task, checked |-> d.checked]

\* a delete_many that removes nothing: what C1 rests on
delete_none(docs, user_id) == docs

\* a delete_many without its filter: what C9 rests on
delete_all(docs, user_id) == <<>>

\* collection.delete_many({"user_id": user_id})
delete_many(docs, user_id) == SelectSeq(docs, LAMBDA d : d.user_id # user_id)

\* an insert_one that is lost: what C10 rests on
insert_lost(docs, doc) == docs

\* collection.insert_one(doc)
insert_one(docs, doc) == Append(docs, doc)

\* list(collection.find({"user_id": user_id}))
find(docs, user_id) == SelectSeq(docs, LAMBDA d : d.user_id = user_id)

\* the list comprehension of get_goals / get_notes / get_tasks
ListBody(c, user_id) ==
    LET found == find(coll[c], user_id)
    IN  [k \in 1..Len(found) |-> ItemOf(c, found[k])]

DataOp(kind, c, user_id) == [op |-> kind, coll |-> c, user_id |-> user_id]

\* save_goals / save_notes / save_tasks up to and including delete_many
SaveBegin(w, header, c, items) ==
    /\ pc[w] = "idle"
    /\ LET current_user == get_current_user(header, now)
           r == [Request("save", header, <<>>) EXCEPT !.coll = c, !.items = items]
       IN  IF ~current_user.ok
           THEN /\ Complete(w, r, HTTPException(current_user.status, current_user.detail), <<>>)
                /\ UNCHANGED storeVars
           ELSE IF ~data_connected
           THEN /\ Complete(w, r, HTTPException(500, "Database not connected"), <<>>)
                /\ UNCHANGED storeVars
           ELSE LET user_id == Str(current_user.user[1]._id)
                    started == [r EXCEPT !.uid = user_id, !.i = 1,
                                         !.old = ListBody(c, user_id),
                                         !.ops = {DataOp("delete", c, user_id)}]
                IN  /\ coll' = [coll EXCEPT ![c] = delete_many(coll[c], user_id)]
                    /\ ndb' = ndb + 1
                    /\ IF items = <<>>
                       THEN Complete(w, started, Response(200, "saved successfully", <<>>),
                                     <<c, user_id>>)
                       ELSE Continue(w, started, "insert", <<c, user_id>>)
    /\ UNCHANGED <<connVars, authVars, chat>>

\* one turn of the for loop: insert_one of the next item; after the last, return
SaveInsert(w) ==
    /\ pc[w] = "insert"
    /\ LET r == req[w]
           next == [r EXCEPT !.i = r.i + 1,
                             !.ops = @ \cup {DataOp("insert", r.coll, r.uid)}]
       IN  /\ coll' = [coll EXCEPT
                         ![r.coll] = insert_one(coll[r.coll], MakeDoc(r.coll, r.uid, r.items[r.i]))]
           /\ ndb' = ndb + 1
           /\ IF r.i = Len(r.items)
              THEN Complete(w, next, Response(200, "saved successfully", <<>>),
                            <<r.coll, r.uid>>)
              ELSE Continue(w, next, "insert", <<r.coll, r.uid>>)
    /\ UNCHANGED <<connVars, authVars, chat>>

\* get_goals / get_notes / get_tasks
List(w, header, c) ==
    /\ pc[w] = "idle"
    /\ LET current_user == get_current_user(header, now)
           r == [Request("list", header, <<>>) EXCEPT !.coll = c]
       IN  IF ~current_user.ok
           THEN /\ Complete(w, r, HTTPException(current_user.status, current_user.detail), <<>>)
                /\ ndb' = ndb
           ELSE IF ~data_connected
           THEN /\ Complete(w, r, HTTPException(500, "Database not connected"), <<>>)
                /\ ndb' = ndb
           ELSE LET user_id == Str(current_user.user[1]._id)
                IN  /\ Complete(w, [r EXCEPT !.uid = user_id,
                                             !.ops = {DataOp("find", c, user_id)}],
                                Response(200, "", ListBody(c, user_id)), <<>>)
                    /\ ndb' = ndb + 1
    /\ UNCHANGED <<connVars, authVars, coll, chat>>

-----------------------------------------------------------------------------
(* chatbotapi.py: GET /api/performance *)

RECURSIVE Gcd(_, _)
Gcd(a, b) == IF b = 0 THEN a ELSE Gcd(b, a % b)

\* an exact fraction in lowest terms (den > 0)
Ratio(num, den) == [num |-> num \div Gcd(num, den), den |-> den \div Gcd(num, den)]

\* Python's a / b: raises ZeroDivisionError when b = 0
TrueDiv(a, b) == IF b = 0 THEN [num |-> 0, den |-> 0] ELSE Ratio(a, b)

\* the percentage without its guard: what C8 rests on
PercentUnguarded(completed, total) ==
    LET q == TrueDiv(completed, total) IN TrueDiv(q.num * 100, q.den)

\* (completed / total) * 100 if total > 0 else 0
Percent(completed, total) ==
    IF total > 0
    THEN LET q == TrueDiv(completed, total) IN TrueDiv(q.num * 100, q.den)
    ELSE Ratio(0, 1)

\* sum(1 for g in user_goals if g["checked"])
Completed(user_goals) == Len(SelectSeq(user_goals, LAMBDA g : g.checked))

PerformanceBody(user_id) ==
    LET user_goals == find(coll["goals"], user_id)
        total == Len(user_goals)
        completed == Completed(user_goals)
    IN  [total |-> total, completed |-> completed, percent |-> Percent(completed, total)]

get_performance(w, header) ==
    /\ pc[w] = "idle"
    /\ LET current_user == get_current_user(header, now)
           r == [Request("performance", header, <<>>) EXCEPT !.coll = "goals"]
       IN  IF ~current_user.ok
           THEN /\ Complete(w, r, HTTPException(current_user.status, current_user.detail), <<>>)
                /\ ndb' = ndb
           ELSE IF ~data_connected
           THEN /\ Complete(w, r, HTTPException(500, "Database not connected"), <<>>)
                /\ ndb' = ndb
           ELSE LET user_id == Str(current_user.user[1]._id)
                    body == PerformanceBody(user_id)
                IN  /\ Complete(w, [r EXCEPT !.uid = user_id,
                                             !.ops = {DataOp("find", "goals", user_id)}],
                                IF body.percent.den = 0
                                THEN HTTPException(500, "ZeroDivisionError")
                                ELSE Response(200, "", body), <<>>)
                    /\ ndb' = ndb + 1
    /\ UNCHANGED <<connVars, authVars, coll, chat>>

-----------------------------------------------------------------------------
(* chatbotapi.py: POST /api/chat *)

Prompts == { "explain", "summarise" }

\* what generate_reply can return: response.text
Texts == { <<>>, <<"hello">>, <<"# ", "503">> }

\* the pieces str(e) of a raised exception is made of
ErrPieces == { "50", "3", "Service temporarily", " unavailable" }
ErrMsgs == SeqsUpTo(ErrPieces, MaxErrLen)

\* str(e) of an exception raised while rendering
RenderErrMsgs == { <<"TypeError">>, <<"50", "3">> }

Returned(text) == [kind |-> "ok", text |-> text]
Raised(msg) == [kind |-> "fail", text |-> msg]
NotCalled == [kind |-> "none", text |-> <<>>]

\* the outcomes of an external call: a text or an exception
CallOutcomes == { Returned(t) : t \in Texts } \cup { Raised(m) : m \in ErrMsgs }

\* markdown2.markdown(text): the HTML of the text
Markdown(text) ==
    IF text = <<>> THEN <<>>
    ELSE IF Head(text) = "# " THEN <<"<h1>">> \o Tail(text) \o <<"</h1>\n">>
    ELSE <<"<p>">> \o text \o <<"</p>\n">>

\* the outcomes of the rendering call: the HTML or an exception
RenderOutcomes(text) == { Returned(Markdown(text)) } \cup { Raised(m) : m \in RenderErrMsgs }

\* a test that takes every failure for a temporary one: what C4 rests on
AlwaysTemporary(msg) == TRUE

\* line 75: "503" in str(e1) or "Service temporarily unavailable" in str(e1)
IsTemporary(msg) ==
    \/ Contains(msg, <<"50", "3">>)
    \/ Contains(msg, <<"Service temporarily", " unavailable">>)

BUSY_REPLY == <<"Service is temporarily busy. Please try again later.">>

\* f"Error: {str(e)}"
ErrorReply(msg) == <<"Error: ">> \o msg

ChatIdle ==
    [pc |-> "Idle", prompt |-> "", as_markdown |-> FALSE,
     primary_calls |-> 0, secondary_calls |-> 0,
     primary |-> NotCalled, secondary |-> NotCalled, render |-> NotCalled,
     how |-> "", reply |-> <<>>]

ChatTerminal == {"Success", "ErrorReply", "BusyReply"}

\* return {"reply": ...}
Return(c, state, reply) == [c EXCEPT !.pc = state, !.how = "return", !.reply = reply]

\* lines 86-87: the outer handler turns an exception of lines 83-85 into a reply
OuterExcept(c, msg) == Return(c, "ErrorReply", ErrorReply(msg))

\* lines 83-85 without the rendering: what C5 rests on
FinishRaw(c, reply_text, rendered) == Return(c, "Success", reply_text)

\* lines 83-85, under the outer try
Finish(c, reply_text, rendered) ==
    IF c.as_markdown
    THEN IF rendered.kind = "ok"
         THEN Return([c EXCEPT !.render = rendered], "Success", rendered.text)
         ELSE OuterExcept([c EXCEPT !.render = rendered], rendered.text)
    ELSE Return(c, "Success", reply_text)

\* a request arrives
ChatStart(prompt, as_markdown) ==
    /\ chat.pc \in {"Idle"} \cup ChatTerminal
    /\ chat' = [ChatIdle EXCEPT !.pc = "TryPrimary", !.prompt = prompt,
                                !.as_markdown = as_markdown]
    /\ UNCHANGED <<connVars, authVars, storeVars, workerVars>>

\* lines 71-75 and 80-85: generate_reply(req.prompt, client1) and what follows it
TryPrimary(outcome, rendered) ==
    /\ chat.pc = "TryPrimary"
    /\ LET c == [chat EXCEPT !.primary_calls = @ + 1, !.primary = outcome]
       IN  chat' = IF outcome.kind = "ok" THEN Finish(c, outcome.text, rendered)
                   ELSE IF IsTemporary(outcome.text) THEN [c EXCEPT !.pc = "TrySecondary"]
                   ELSE Return(c, "ErrorReply", ErrorReply(outcome.text))
    /\ UNCHANGED <<connVars, authVars, storeVars, workerVars>>

\* lines 76-79 and 83-85: generate_reply(req.prompt, client2) and what follows it
TrySecondary(outcome, rendered) ==
    /\ chat.pc = "TrySecondary"
    /\ LET c == [chat EXCEPT !.secondary_calls = @ + 1, !.secondary = [outcome EXCEPT
                                   !.text = IF outcome.kind = "ok" THEN @ ELSE <<>>]]
       IN  chat' = IF outcome.kind = "ok" THEN Finish(c, outcome.text, rendered)
                   ELSE Return(c, "BusyReply", BUSY_REPLY)
    /\ UNCHANGED <<connVars, authVars, storeVars, workerVars>>

-----------------------------------------------------------------------------
(* Specifications *)

NoDocs == [c \in Colls |-> <<>>]

Init ==
    /\ users_connected \in BOOLEAN
    /\ data_connected \in BOOLEAN
    /\ users = <<>>
    /\ coll = NoDocs
    /\ now = 0
    /\ ticks = 0
    /\ issued = {}
    /\ registered = {}
    /\ pc = [w \in Workers |-> "idle"]
    /\ req = [w \in Workers |-> NoReq]
    /\ last = [req |-> NoReq, resp |-> NoResp]
    /\ nreq = 0
    /\ ndb = 0
    /\ chat = ChatIdle

\* the users collection after two registrations at time 0
Registered ==
    [u \in {1, 2} |->
        [_id |-> u, name |-> "Ann",
         email |-> <<"a", AT>> \o [k \in 1..u |-> "x"],
         password |-> pwd_hash(<<"s","e","c","r","e","t">>, "salt1"),
         dob |-> "2000-01-01", created_at |-> 0]]

\* the state after those users have registered
TokenInit ==
    /\ users_connected \in BOOLEAN
    /\ data_connected \in BOOLEAN
    /\ users = Registered
    /\ coll = NoDocs
    /\ now = 0
    /\ ticks = 0
    /\ issued = {}
    /\ registered = { [email |-> users[u].email, password |-> <<"s","e","c","r","e","t">>] :
                         u \in {1, 2} }
    /\ pc = [w \in Workers |-> "idle"]
    /\ req = [w \in Workers |-> NoReq]
    /\ last = [req |-> NoReq, resp |-> NoResp]
    /\ nreq = 0
    /\ ndb = 0
    /\ chat = ChatIdle

\* what the collections hold once user 1 has saved two goals and a note and
\* user 2 one goal and a task
Saved ==
    [c \in Colls |->
        CASE c = "goals" ->
               << MakeDoc(c, Str(1), [goal |-> "read", checked |-> TRUE]),
                  MakeDoc(c, Str(2), [goal |-> "read", checked |-> FALSE]),
                  MakeDoc(c, Str(1), [goal |-> "read", checked |-> FALSE]) >>
          [] c = "notes" ->
               << MakeDoc(c, Str(1), [content |-> "memo", timestamp |-> "09:00"]) >>
          [] c = "tasks" ->
               << MakeDoc(c, Str(2), [task |-> "call", checked |-> TRUE]) >>]

\* the state after those users have registered, each has logged in once and
\* saved; a server process that failed to connect still gets their requests
GateInit ==
    /\ users_connected \in BOOLEAN
    /\ data_connected \in BOOLEAN
    /\ users = Registered
    /\ coll = Saved
    /\ now = 0
    /\ ticks = 0
    /\ issued = { [token |-> create_jwt_token(Str(u), 0), at |-> 0, user |-> u] : u \in {1, 2} }
    /\ registered = { [email |-> users[u].email, password |-> <<"s","e","c","r","e","t">>] :
                         u \in {1, 2} }
    /\ pc = [w \in Workers |-> "idle"]
    /\ req = [w \in Workers |-> NoReq]
    /\ last = [req |-> NoReq, resp |-> NoResp]
    /\ nreq = 0
    /\ ndb = 0
    /\ chat = ChatIdle

\* the same, with both modules connected to the database
DataInit == GateInit /\ users_connected /\ data_connected

AuthStart ==
    \E w \in Workers :
        \/ \E body \in RegisterBodies : RegisterCheck(w, body)
        \/ \E body \in LoginBodies : Login(w, body)

TokenStart ==
    \E w \in Workers :
        \/ \E body \in LoginBodies : Login(w, body)
        \/ \E header \in Headers : GetMe(w, header)

AuthStep == \E w \in Workers, salt \in Salts : RegisterInsert(w, salt)

\* a request arrives and the first idle server process takes it
Idle(w) == pc[w] = "idle" /\ \A x \in Workers : pc[x] = "idle" => ~(x < w)

\* the operations on goals / notes / tasks a request may need fit the bound
Fits(k) == ndb + k <= MaxDataOps

DataStart(headers) ==
    \E w \in Workers, header \in headers :
        /\ Idle(w)
        /\ \/ \E c \in Colls : \E items \in Bodies(c) :
                Fits(1 + Len(items)) /\ SaveBegin(w, header, c, items)
           \/ \E c \in Colls : Fits(1) /\ List(w, header, c)
           \/ Fits(1) /\ get_performance(w, header)

DataStep == \E w \in Workers : SaveInsert(w)

AuthNext ==
    \/ nreq < MaxAuthRequests /\ AuthStart
    \/ AuthStep

TokenNext ==
    \/ nreq < MaxTokenRequests /\ TokenStart
    \/ \E d \in TickSteps : Tick(d)

DataNext ==
    \/ DataStart(ValidHeaders)
    \/ DataStep

GateNext ==
    \/ nreq < MaxGateRequests /\ DataStart(Headers)
    \/ nreq < MaxGateRequests /\ \E w \in Workers, header \in Headers : Idle(w) /\ GetMe(w, header)
    \/ DataStep

ChatNext ==
    \/ \E prompt \in Prompts, as_markdown \in BOOLEAN : ChatStart(prompt, as_markdown)
    \/ \E outcome \in CallOutcomes :
         \E rendered \in RenderOutcomes(outcome.text) : TryPrimary(outcome, rendered)
    \/ \E outcome \in CallOutcomes :
         \E rendered \in RenderOutcomes(outcome.text) : TrySecondary(outcome, rendered)

Next == AuthNext \/ TokenNext \/ DataNext \/ GateNext \/ ChatNext

Spec == Init /\ [][Next]_vars

\* registration and login
AuthSpec == Init /\ [][AuthNext]_vars

\* login, the auth gate and the clock, once users exist
TokenSpec == TokenInit /\ [][TokenNext]_vars

\* the per-user endpoints, once users exist
DataSpec == DataInit /\ [][DataNext]_vars

\* the per-user endpoints under every kind of Authorization header
GateSpec == GateInit /\ [][GateNext]_vars

\* the chat relay
ChatSpec == Init /\ [][ChatNext]_vars

-----------------------------------------------------------------------------
(* Registration and login (AuthSpec) *)

Credentials(body) == [email |-> body.email, password |-> body.password]

\* C2: once register has succeeded for an email and a password, a login that
\* submits the same email string and the same password succeeds and returns a
\* token.
C2_LoginAfterRegister ==
    (last.req.kind = "login" /\ Credentials(last.req.body) \in registered)
        => last.resp.status = 200

\* the request taken up in this step, if one is
Arrived(r) ==
    /\ nreq' = nreq + 1
    /\ r.n = nreq'
    /\ \/ r = last'.req
       \/ \E w \in Workers : r = req'[w]

EqualIgnoringCase(a, b) == Lower(a) = Lower(b)

\* C6: a register request whose password has fewer than 6 characters fails
\* with a validation error (422), and one with a valid password whose email
\* equals, ignoring letter case, the email of a stored user fails with 400
\* "Email already registered"; in both cases it is answered at once, no user
\* record is added and the stored records are unchanged.
C6_RegisterRejects ==
    [][\A body \in RegisterBodies :
          LET r == Request("register", <<>>, body)
              short == Len(body.password) < MIN_PASSWORD_LEN
              duplicate == \E k \in 1..Len(users) : EqualIgnoringCase(users[k].email, body.email)
          IN  (Arrived(r) /\ (short \/ duplicate))
                  => /\ last'.req = r
                     /\ last'.resp.status = (IF short THEN 422 ELSE 400)
                     /\ users' = users
                     /\ \A w \in Workers : pc'[w] = pc[w]]_vars

\* a registration is refused because the stored email differs only in case
C6_Witness ==
    /\ last.req.kind = "register"
    /\ last.resp.status = 400
    /\ last.resp.detail = "Email already registered"
    /\ \E k \in 1..Len(users) :
          /\ users[k].email # last.req.body.email
          /\ EqualIgnoringCase(users[k].email, last.req.body.email)

-----------------------------------------------------------------------------
(* Tokens (TokenSpec) *)

\* C7: a token login issued at time t resolves at the auth gate to the user
\* who logged in at every time up to t + 24 hours and is rejected with 401
\* "Invalid token" at every time after; its expiry is fixed at issue, and the
\* same token with a later expiry is rejected.
C7_TokenLifetime ==
    \A i \in issued :
        LET gate == get_current_user(<<i.token>>, now)
            later == get_current_user(<<[i.token EXCEPT !.exp = @ + TOKEN_TTL]>>, now)
        IN  /\ i.token.exp = i.at + TOKEN_TTL
            /\ now >= i.at
            /\ now <= i.at + TOKEN_TTL => gate.ok /\ gate.user[1]._id = i.user
            /\ now > i.at + TOKEN_TTL => gate = Error(401, "Invalid token")
            /\ ~later.ok

\* GET /api/me with an issued token, one second after its 24 hours
C7_Witness ==
    \E i \in issued :
        /\ now = i.at + TOKEN_TTL + 1
        /\ last.req.kind = "me"
        /\ last.req.header = <<i.token>>
        /\ last.resp = HTTPException(401, "Invalid token")

-----------------------------------------------------------------------------
(* The auth gate in front of the per-user endpoints (GateSpec) *)

Protected == {"me", "save", "list", "performance"}

BadSignature(header) ==
    header # <<>> /\ header[1].sig # Sign(header[1].id, header[1].exp, SECRET_KEY)

Unauthenticated(r) == r.kind \in Protected /\ (r.header = <<>> \/ BadSignature(r.header))

\* C3 as stated: a request to a per-user endpoint with no token or with a token
\* whose signature does not verify is rejected with 401 in every state, and its
\* handler performs no operation on goals, notes or tasks.
C3_Rejected401 ==
    Unauthenticated(last.req) => last.resp.status = 401 /\ last.req.ops = {}

\* C3 amended: such a request is rejected before its handler touches goals,
\* notes or tasks: with 401 when it carries no token or userapi's users
\* collection is connected, with 500 "Database not connected" when it carries
\* a token and the users collection is not connected.
C3_RejectedBeforeData ==
    Unauthenticated(last.req) =>
        /\ last.resp.status = (IF last.req.header = <<>> \/ users_connected THEN 401 ELSE 500)
        /\ last.req.ops = {}
        /\ \A w \in Workers : ~Unauthenticated(req[w])

\* a save with another user's id put into the payload of one's own token
C3_Witness ==
    /\ last.req.kind = "save"
    /\ last.req.items # <<>>
    /\ BadSignature(last.req.header)
    /\ last.resp = HTTPException(401, "Invalid token")
    /\ coll = Saved

-----------------------------------------------------------------------------
(* The collections (DataSpec) *)

Uids == { Str(users[k]._id) : k \in 1..Len(users) }

DocsOf(c, u) == SelectSeq(coll[c], LAMBDA d : d.user_id = u)

IsSaveOn(r, c, u) == r.kind = "save" /\ r.coll = c /\ r.uid = u

\* C1: when a save of items for user u completes and no other request has
\* written u's documents of that collection since it began, listing that
\* collection for u gives exactly items, whatever was stored before.
C1_SaveThenList ==
    (last.req.kind = "save" /\ last.resp.status = 200 /\ last.req.clean)
        => ListBody(last.req.coll, last.req.uid) = last.req.items

\* a save that replaced a different, non-empty set
C1_Witness ==
    /\ last.req.kind = "save"
    /\ last.resp.status = 200
    /\ last.req.clean
    /\ last.req.old # <<>>
    /\ last.req.items # <<>>
    /\ last.req.old # last.req.items
    /\ Len(coll[last.req.coll]) > Len(last.req.items)

\* the request of process w made a step
Stepped(w) == req'[w].n # req[w].n \/ req'[w].i # req[w].i

\* a request is answered in this step
Answered == last'.req.n # last.req.n

\* C9: a step changes the documents of user u in collection c only if it is a
\* step of a save made for u on c, and a list or performance request made for
\* u returns the documents tagged with u's id and nothing else.
C9_Ownership ==
    [][/\ \A c \in Colls, u \in Uids :
            DocsOf(c, u)' # DocsOf(c, u)
                => \/ Answered /\ IsSaveOn(last'.req, c, u)
                   \/ \E w \in Workers : Stepped(w) /\ IsSaveOn(req'[w], c, u)
       /\ (Answered /\ last'.req.kind = "list")
            => LET mine == DocsOf(last'.req.coll, last'.req.uid)
               IN  /\ last'.req.uid \in Uids
                   /\ last'.resp.body = [k \in 1..Len(mine) |-> ItemOf(last'.req.coll, mine[k])]
       /\ (Answered /\ last'.req.kind = "performance")
            => /\ last'.req.uid \in Uids
               /\ last'.resp.body.total = Len(DocsOf("goals", last'.req.uid))]_vars

\* user 2 has replaced its goals and user 1's goals are as they were
C9_Witness ==
    /\ IsSaveOn(last.req, "goals", Str(2))
    /\ last.resp.status = 200
    /\ last.req.old # last.req.items
    /\ ListBody("goals", Str(1)) = <<[goal |-> "read", checked |-> TRUE],
                                     [goal |-> "read", checked |-> FALSE]>>
    /\ DocsOf("notes", Str(1)) # <<>>

\* C10: a list for u that runs while a save for u on the same collection is
\* between its delete and the end of its inserts (and nothing else has written
\* those documents) returns the items inserted so far: the empty list right
\* after the delete, otherwise a strict prefix of the new list.
C10_TornRead ==
    [][\A w \in Workers :
          (/\ Answered
           /\ last'.req.kind = "list"
           /\ pc[w] = "insert"
           /\ pc'[w] = "insert"
           /\ req[w].clean
           /\ IsSaveOn(req[w], last'.req.coll, last'.req.uid))
              => /\ last'.resp.body = SubSeq(req[w].items, 1, req[w].i - 1)
                 /\ Len(last'.resp.body) < Len(req[w].items)]_vars

\* a list answered with the empty list while a save is replacing a non-empty
\* set by a non-empty one: neither what was stored nor what is being saved
C10_Witness ==
    \E w \in Workers :
        /\ pc[w] = "insert"
        /\ req[w].clean
        /\ last.req.kind = "list"
        /\ last.req.n > req[w].n
        /\ IsSaveOn(req[w], last.req.coll, last.req.uid)
        /\ req[w].old # <<>>
        /\ last.resp.status = 200
        /\ last.resp.body = <<>>
        /\ last.resp.body # req[w].old
        /\ last.resp.body # req[w].items

\* C8: performance(u) gives total = the number of goals stored for u,
\* completed = the number of those that are checked, 0 <= completed <= total,
\* percent = 100 * completed / total when total > 0 and 0 when total = 0
\* (so {0, 0, 0} on an empty set), and never fails by dividing by zero.
C8_Performance ==
    /\ \A u \in Uids :
          LET b == PerformanceBody(u)
              goals == DocsOf("goals", u)
              total == Len(goals)
              completed == Cardinality({k \in 1..total : goals[k].checked})
          IN  /\ b.total = total
              /\ b.completed = completed
              /\ 0 <= b.completed /\ b.completed <= b.total
              /\ b.percent.den > 0
              /\ total > 0 => b.percent.num * total = 100 * completed * b.percent.den
              /\ total = 0 => b = [total |-> 0, completed |-> 0, percent |-> Ratio(0, 1)]
    /\ last.req.kind = "performance" => last.resp.status = 200

\* performance answered for a user with one goal of two checked
C8_Witness ==
    /\ last.req.kind = "performance"
    /\ last.resp.status = 200
    /\ last.resp.body = [total |-> 2, completed |-> 1, percent |-> Ratio(50, 1)]
    /\ nreq > 1

-----------------------------------------------------------------------------
(* The chat relay (ChatSpec) *)

Has503(msg) ==
    \E k \in 1..Len(msg) :
        \/ k < Len(msg) /\ msg[k] = "50" /\ msg[k + 1] = "3"
        \/ k < Len(msg) /\ msg[k] = "Service temporarily" /\ msg[k + 1] = " unavailable"

ChatStep ==
    \/ \E outcome \in CallOutcomes :
         \E rendered \in RenderOutcomes(outcome.text) : TryPrimary(outcome, rendered)
    \/ \E outcome \in CallOutcomes :
         \E rendered \in RenderOutcomes(outcome.text) : TrySecondary(outcome, rendered)

\* everything C4 says except where an error reply comes from
ChatMachine ==
    /\ chat.pc \in {"Idle", "TryPrimary", "TrySecondary"} \cup ChatTerminal
    /\ chat.primary_calls = (IF chat.pc \in {"Idle", "TryPrimary"} THEN 0 ELSE 1)
    /\ chat.secondary_calls <= 1
    /\ chat.pc = "TrySecondary" => chat.secondary_calls = 0
    /\ (chat.secondary_calls = 1 \/ chat.pc = "TrySecondary")
          => chat.primary.kind = "fail" /\ Has503(chat.primary.text)
    /\ chat.pc \in {"TryPrimary", "TrySecondary"} => ENABLED ChatStep
    /\ chat.pc \in ChatTerminal => chat.how = "return"
    /\ chat.pc = "Success" => "ok" \in {chat.primary.kind, chat.secondary.kind}
    /\ chat.pc = "BusyReply" => chat.secondary_calls = 1 /\ chat.secondary.kind = "fail"

\* C4 as stated: the primary is called exactly once, the secondary at most once
\* and only after a "503"-style failure of the primary, every run ends in one
\* of Success, ErrorReply, BusyReply by returning a reply, ErrorReply only from
\* another failure of the primary and BusyReply only from a failure of the
\* secondary.
C4_StateMachine ==
    /\ ChatMachine
    /\ chat.pc = "ErrorReply" => chat.primary.kind = "fail" /\ ~Has503(chat.primary.text)

\* C4 amended: as stated, except that ErrorReply is reached from another
\* failure of the primary or from an exception raised while rendering a
\* generated text to HTML.
C4_StateMachineWithRender ==
    /\ ChatMachine
    /\ chat.pc = "ErrorReply" =>
          \/ chat.primary.kind = "fail" /\ ~Has503(chat.primary.text)
          \/ /\ chat.render.kind = "fail"
             /\ chat.as_markdown
             /\ "ok" \in {chat.primary.kind, chat.secondary.kind}

\* the secondary's text was generated and rendering it raised
C4_Witness ==
    /\ chat.pc = "ErrorReply"
    /\ chat.secondary.kind = "ok"
    /\ chat.secondary_calls = 1
    /\ chat.render.kind = "fail"

Html(text) ==
    IF text = <<>> THEN <<>>
    ELSE IF text[1] = "# " THEN <<"<h1>">> \o SubSeq(text, 2, Len(text)) \o <<"</h1>\n">>
    ELSE <<"<p>">> \o text \o <<"</p>\n">>

\* a generated text as the reply shows it; with `orError`, a failed rendering
\* shows as an error reply
Shown(text, orError) ==
    IF orError /\ chat.as_markdown /\ chat.render.kind = "fail"
    THEN <<"Error: ">> \o chat.render.text
    ELSE IF chat.as_markdown THEN Html(text) ELSE text

\* the reply C5 gives
ExpectedReply(orError) ==
    IF chat.primary.kind = "ok" THEN Shown(chat.primary.text, orError)
    ELSE IF Has503(chat.primary.text)
    THEN IF chat.secondary.kind = "ok" THEN Shown(chat.secondary.text, orError)
         ELSE <<"Service is temporarily busy. Please try again later.">>
    ELSE <<"Error: ">> \o chat.primary.text

\* C5 as stated: the reply is the primary's text (as HTML iff as_markdown) when
\* the primary succeeds, the secondary's text (likewise) when the primary fails
\* with a "503"-style message and the secondary succeeds, the fixed busy text
\* when both fail, and "Error: <message>" when the primary fails otherwise.
C5_Reply ==
    chat.pc \in ChatTerminal => chat.reply = ExpectedReply(FALSE)

\* C5 amended: as stated, except that when as_markdown is set and rendering the
\* generated text raises, the reply is "Error: <the rendering error's message>".
C5_ReplyWithRender ==
    chat.pc \in ChatTerminal => chat.reply = ExpectedReply(TRUE)

\* the primary's text was generated, as_markdown was set and rendering raised
C5_Witness ==
    /\ chat.pc \in ChatTerminal
    /\ chat.primary.kind = "ok"
    /\ chat.as_markdown
    /\ chat.render.kind = "fail"
    /\ chat.reply = <<"Error: ", "TypeError">>

=============================================================================
